---- MODULE Spec2Model ----
(***************************************************************************)
(* A model of WSIHandler (tile_generator.py): the grid tiler               *)
(* get_relevant_tiles, the patch walk extract_patches, the label           *)
(* classifier check_for_label and the driver slides2patches.               *)
(*                                                                         *)
(* Arrays are records [shape |-> <<rows, cols>>, pix |-> f] where f maps a *)
(* pixel <<y, x>> to the sequence of its channel values: a 2-D mask has    *)
(* one value per pixel, an RGB image three.  Ratios (coverage, overlap,    *)
(* thresholds) are fractions num/den compared by cross-multiplication.     *)
(***************************************************************************)
EXTENDS Integers, Sequences, FiniteSets, TLC

VARIABLES pc, config, slides, slide_nb, slide, annotation_dict, grt, ep, cfl,
          meta_data, error

vars == <<pc, config, slides, slide_nb, slide, annotation_dict, grt, ep, cfl,
          meta_data, error>>

\* ------------------------------------------------------------------ bounds
MaxRows == 2
MaxCols == 2
MaxTile == 2
CovDen == 3

None == "None"

\* Python dicts keyed by 0..n-1 are functions on their key set.
EmptyDict == [k \in {} |-> None]

DictUpdate(d, key, value) ==
  [k \in (DOMAIN d) \cup {key} |-> IF k = key THEN value ELSE d[k]]

\* ------------------------------------------------------------ numpy / cv2
Pixels(shape) == (0 .. shape[1] - 1) \X (0 .. shape[2] - 1)

\* a[y0:y1, x0:x1] with 0 <= y0, x0: the pixels of the slice (numpy clips
\* the stop index to the array's extent).
SliceRegion(a, y0, y1, x0, x1) ==
  {p \in Pixels(a.shape) : y0 <= p[1] /\ p[1] < y1 /\ x0 <= p[2] /\ p[2] < x1}

Channels(a) == IF Pixels(a.shape) = {} THEN 1
               ELSE Len(a.pix[CHOOSE p \in Pixels(a.shape) : TRUE])

\* np.count_nonzero(tile): nonzero entries over every pixel and channel.
CountNonzero(a, region) ==
  Cardinality({e \in region \X (1 .. Channels(a)) : a.pix[e[1]][e[2]] # 0})

\* tile.size: number of entries of the slice.
ArraySize(a, region) == Cardinality(region) * Channels(a)

\* cv2.cvtColor(mask, COLOR_GRAY2RGB): the gray value in each of 3 channels.
CvtColorGray2RGB(a) ==
  [shape |-> a.shape,
   pix |-> [p \in Pixels(a.shape) |-> <<a.pix[p][1], a.pix[p][1], a.pix[p][1]>>]]

\* cv2.rectangle(img, (x1, y1), (x2, y2), color, 1): the one-pixel outline
\* through both corners (inclusive), clipped to the image, drawn in place.
OnOutline(p, x1, y1, x2, y2) ==
  /\ y1 <= p[1] /\ p[1] <= y2 /\ x1 <= p[2] /\ p[2] <= x2
  /\ (p[1] = y1 \/ p[1] = y2 \/ p[2] = x1 \/ p[2] = x2)

Rectangle(img, x1, y1, x2, y2, color) ==
  [img EXCEPT !.pix = [p \in Pixels(img.shape) |->
                         IF OnOutline(p, x1, y1, x2, y2) THEN color ELSE img.pix[p]]]

RectColor == <<255, 0, 0>>

\* ------------------------------------------------------ get_relevant_tiles
\* divmod(tissue_mask.shape[k], tile_size)[0]
GridCount_Ceil(extent, tile_size) == (extent + tile_size - 1) \div tile_size

GridCount(extent, tile_size) == extent \div tile_size

\* tissue_mask[row*T : row*T + T, col*T : col*T + T] of the array the name
\* tissue_mask is bound to at this iteration.
TileRegion(a, row, col, tile_size) ==
  SliceRegion(a, row * tile_size, row * tile_size + tile_size,
                 col * tile_size, col * tile_size + tile_size)

\* tissue_coverage >= min_coverage, with tissue_coverage = count_nonzero / size
\* and min_coverage = num / CovDen.
CoverageOK(count, size, num) == count * CovDen >= num * size

TileCovered(a, row, col, tile_size, num) ==
  CoverageOK(CountNonzero(a, TileRegion(a, row, col, tile_size)),
             ArraySize(a, TileRegion(a, row, col, tile_size)), num)

TileRecord(row, col, tile_size, level) ==
  [x |-> col * tile_size, y |-> row * tile_size, size |-> tile_size, level |-> level]

NextTileNb(tile_nb) == tile_nb + 1

\* The frame of get_relevant_tiles on entry (lines 130-136).
GrtEnter(tissue_mask, tile_size) ==
  [tissue_mask |-> tissue_mask,
   colored |-> CvtColorGray2RGB(tissue_mask),
   rows |-> GridCount(tissue_mask.shape[1], tile_size),
   cols |-> GridCount(tissue_mask.shape[2], tile_size),
   relevant_tiles_dict |-> EmptyDict,
   tile_nb |-> 0, row |-> 0, col |-> 0]

GrtIdle == [tissue_mask |-> [shape |-> <<0, 0>>, pix |-> EmptyDict],
            colored |-> [shape |-> <<0, 0>>, pix |-> EmptyDict], rows |-> 0, cols |-> 0,
            relevant_tiles_dict |-> EmptyDict, tile_nb |-> 0, row |-> 0, col |-> 0]

\* for row in range(rows): for col in range(cols): the next index pair.
GrtAdvance(f) ==
  IF f.col + 1 < f.cols THEN [f EXCEPT !.col = f.col + 1]
  ELSE [f EXCEPT !.row = f.row + 1, !.col = 0]

GrtInLoop == grt.row < grt.rows /\ grt.cols > 0

\* One iteration whose tile passes the coverage test (lines 140-151): the
\* descriptor is stored, the rectangle is drawn on colored, and the name
\* tissue_mask is rebound to the array cv2.rectangle returns, i.e. colored.
AcceptTile ==
  /\ pc = "get_relevant_tiles"
  /\ GrtInLoop
  /\ TileCovered(grt.tissue_mask, grt.row, grt.col, config.tile_size,
                 config.tissue_coverage)
  /\ LET T == config.tile_size
         drawn == Rectangle(grt.colored, grt.col * T, grt.row * T,
                            grt.col * T + T, grt.row * T + T, RectColor)
     IN grt' = GrtAdvance(
                 [grt EXCEPT
                    !.relevant_tiles_dict =
                       DictUpdate(@, grt.tile_nb,
                                  TileRecord(grt.row, grt.col, T, slide.level)),
                    !.colored = drawn,
                    !.tissue_mask = drawn,
                    !.tile_nb = NextTileNb(@)])
  /\ UNCHANGED <<pc, config, slides, slide_nb, slide, annotation_dict, ep, cfl,
                 meta_data, error>>

\* One iteration whose tile fails the coverage test.
RejectTile ==
  /\ pc = "get_relevant_tiles"
  /\ GrtInLoop
  /\ ~TileCovered(grt.tissue_mask, grt.row, grt.col, config.tile_size,
                  config.tissue_coverage)
  /\ grt' = GrtAdvance(grt)
  /\ UNCHANGED <<pc, config, slides, slide_nb, slide, annotation_dict, ep, cfl,
                 meta_data, error>>

\* --------------------------------------------------------- check_for_label
ThreshDen == 4
TypeError == "TypeError"

\* label_dict[label]["threshold"] == label_percentage, the percentage being
\* nonzero / size and the threshold num / ThreshDen.
EqHolds(threshold, nonzero, size) == threshold * size = nonzero * ThreshDen

\* label_dict[label]["threshold"] >= label_percentage
GeHolds_Swapped(threshold, nonzero, size) == nonzero * ThreshDen >= threshold * size

GeHolds(threshold, nonzero, size) == threshold * size >= nonzero * ThreshDen

\* The "<=" branch subscripts label_percentage, a float: TypeError.
LeBranch_Indexed(rule, nonzero, size) ==
  IF GeHolds(rule.threshold, nonzero, size) THEN "match" ELSE "next"

LeBranch(rule, nonzero, size) == "raise"

\* One pass of the loop body for one rule: "match" returns the label, "next"
\* goes on to the following rule, "raise" leaves with the exception.
RuleOutcome(rule, nonzero, size) ==
  CASE rule.type = "==" ->
         IF EqHolds(rule.threshold, nonzero, size) THEN "match" ELSE "next"
    [] rule.type = ">=" ->
         IF GeHolds(rule.threshold, nonzero, size) THEN "match" ELSE "next"
    [] rule.type = "<=" -> LeBranch(rule, nonzero, size)
    [] OTHER -> "next"

RECURSIVE CheckFrom(_, _, _, _)
CheckFrom(label_dict, i, nonzero, size) ==
  IF i > Len(label_dict) THEN None
  ELSE LET out == RuleOutcome(label_dict[i], nonzero, size)
       IN IF out = "match" THEN label_dict[i].label
          ELSE IF out = "raise" THEN TypeError
          ELSE CheckFrom(label_dict, i + 1, nonzero, size)

\* check_for_label(label_dict, annotation_mask): label_dict is the sequence
\* of its rules in iteration (insertion) order, the mask is given by its
\* count of nonzero pixels and its size.
CheckForLabel(label_dict, nonzero, size) == CheckFrom(label_dict, 1, nonzero, size)

\* The value slot of a call that has not returned.
NoReturn == "no return"

CflIdle == [label_dict |-> <<>>, nonzero |-> 0, size |-> 1, ret |-> NoReturn]

\* A call of check_for_label on its own, by its three ways of leaving.
ReturnLabel ==
  /\ pc = "check_for_label"
  /\ CheckForLabel(cfl.label_dict, cfl.nonzero, cfl.size) \notin {None, TypeError}
  /\ cfl' = [cfl EXCEPT !.ret = CheckForLabel(cfl.label_dict, cfl.nonzero, cfl.size)]
  /\ pc' = "returned"
  /\ UNCHANGED <<config, slides, slide_nb, slide, annotation_dict, grt, ep, meta_data, error>>

ReturnNone ==
  /\ pc = "check_for_label"
  /\ CheckForLabel(cfl.label_dict, cfl.nonzero, cfl.size) = None
  /\ cfl' = [cfl EXCEPT !.ret = None]
  /\ pc' = "returned"
  /\ UNCHANGED <<config, slides, slide_nb, slide, annotation_dict, grt, ep, meta_data, error>>

RaiseTypeError ==
  /\ pc = "check_for_label"
  /\ CheckForLabel(cfl.label_dict, cfl.nonzero, cfl.size) = TypeError
  /\ pc' = "error"
  /\ error' = TypeError
  /\ UNCHANGED <<config, slides, slide_nb, slide, annotation_dict, grt, ep, cfl, meta_data>>

\* --------------------------------------------------------- extract_patches
OvDen == 4

\* px_overlap = int(patch_size * overlap), overlap = num / OvDen
PxOverlap(patch_size, overlap) == (patch_size * overlap) \div OvDen

PatchStep_Plus(patch_size, overlap) == patch_size + PxOverlap(patch_size, overlap)

\* patch_size - px_overlap
PatchStep(patch_size, overlap) == patch_size - PxOverlap(patch_size, overlap)

CeilDiv(a, b) == (a + b - 1) \div b

NumSteps_Floor(tile_size, patch_size, overlap) ==
  tile_size \div PatchStep(patch_size, overlap)

\* int(np.ceil((tile_size + overlap) / (patch_size - px_overlap)))
NumSteps(tile_size, patch_size, overlap) ==
  CeilDiv(tile_size * OvDen + overlap, OvDen * PatchStep(patch_size, overlap))

StopAt_Strict(pos, patch_size, tile_size) == pos + patch_size > tile_size

\* if patch_x + patch_size >= tile_size: stop = True
StopAt(pos, patch_size, tile_size) == pos + patch_size >= tile_size

Clamp_None(pos, patch_size, tile_size) == pos

\* ... patch_x = tile_size - patch_size
Clamp(pos, patch_size, tile_size) ==
  IF StopAt(pos, patch_size, tile_size) THEN tile_size - patch_size ELSE pos

\* Length of a[lo:hi] on an axis of n entries (negative indices count from
\* the end, both ends clipped to the axis).
SliceIndex(i, n) == IF i < 0 THEN (IF i + n < 0 THEN 0 ELSE i + n)
                    ELSE (IF i > n THEN n ELSE i)

SliceLen(lo, hi, n) ==
  IF SliceIndex(hi, n) > SliceIndex(lo, n)
  THEN SliceIndex(hi, n) - SliceIndex(lo, n) ELSE 0

\* What load_annotation returns: None, or the dict of the file's polygons.
NoAnnotations == [none |-> TRUE, polygons |-> EmptyDict]

Annotations(polygons) == [none |-> FALSE, polygons |-> polygons]

\* Tile-local vertices of one polygon: point - (tile_x, tile_y).
Translate(polygon, tile_x, tile_y) ==
  [i \in DOMAIN polygon |-> <<polygon[i][1] - tile_x, polygon[i][2] - tile_y>>]

\* cv2.fillPoly on an axis-aligned rectangle fills its interior and its
\* boundary: the pixels within the vertices' extent on both axes.
Filled(p, polygon) ==
  /\ \E i \in DOMAIN polygon : polygon[i][1] <= p[2]
  /\ \E i \in DOMAIN polygon : polygon[i][1] >= p[2]
  /\ \E i \in DOMAIN polygon : polygon[i][2] <= p[1]
  /\ \E i \in DOMAIN polygon : polygon[i][2] >= p[1]

\* np.count_nonzero of tile_annotation_mask[y : y + P, x : x + P]
PatchMaskNonzero(annotations, tile_x, tile_y, tile_size, x, y, patch_size) ==
  Cardinality(
    {p \in (y .. y + SliceLen(y, y + patch_size, tile_size) - 1)
           \X (x .. x + SliceLen(x, x + patch_size, tile_size) - 1) :
       \E k \in DOMAIN annotations.polygons :
          Filled(p, Translate(annotations.polygons[k], tile_x, tile_y))})

\* The key the iteration over a dict reaches at position i (keys are
\* inserted in increasing order).
KeyAt(d, i) == CHOOSE k \in DOMAIN d : Cardinality({j \in DOMAIN d : j < k}) = i

EpIdle ==
  [tile_dict |-> EmptyDict, annotations |-> Annotations(EmptyDict), label_dict |-> <<>>,
   overlap |-> 0, patch_size |-> 1, scaling_factor |-> 1, slide_name |-> 0,
   patch_dict |-> EmptyDict, files |-> {}, tile_nb |-> 0, in_tile |-> FALSE,
   tile_x |-> 0, tile_y |-> 0, tile_size |-> 0, rows |-> 0, cols |-> 0,
   row |-> 0, col |-> 0, patch_nb |-> 0, stop_y |-> FALSE, visited |-> <<>>]

\* The frame of extract_patches on entry (lines 195-201).
EpEnter(tile_dict, annotations, label_dict, overlap, patch_size, scaling_factor, slide_name) ==
  [EpIdle EXCEPT !.tile_dict = tile_dict, !.annotations = annotations,
                 !.label_dict = label_dict, !.overlap = overlap,
                 !.patch_size = patch_size, !.scaling_factor = scaling_factor,
                 !.slide_name = slide_name]

\* Lines 204-228 for the next tile of tile_dict, up to the polygon loop.
EpTileSetup(f) ==
  LET t == f.tile_dict[KeyAt(f.tile_dict, f.tile_nb)]
      size == t.size * f.scaling_factor
  IN [f EXCEPT
        !.tile_x = t.x * f.scaling_factor,
        !.tile_y = t.y * f.scaling_factor,
        !.tile_size = size,
        !.patch_dict = DictUpdate(@, f.tile_nb,
                          [x_pos |-> t.x * f.scaling_factor,
                           y_pos |-> t.y * f.scaling_factor,
                           size |-> size, patches |-> EmptyDict]),
        !.rows = NumSteps(size, f.patch_size, f.overlap),
        !.cols = NumSteps(size, f.patch_size, f.overlap),
        !.patch_nb = 0, !.stop_y = FALSE, !.row = 0, !.col = 0,
        !.visited = <<>>,
        !.in_tile = TRUE]

EpTileDone(f) == [f EXCEPT !.in_tile = FALSE, !.tile_nb = f.tile_nb + 1]

\* A tile begins: its record is opened and its annotation mask is drawn.
BeginTile ==
  /\ pc = "extract_patches"
  /\ ~ep.in_tile
  /\ ep.tile_nb < Cardinality(DOMAIN ep.tile_dict)
  /\ ~ep.annotations.none
  /\ LET f == EpTileSetup(ep)
     IN ep' = IF f.rows > 0 /\ f.cols > 0 THEN f ELSE EpTileDone(f)
  /\ UNCHANGED <<pc, config, slides, slide_nb, slide, annotation_dict, grt, cfl,
                 meta_data, error>>

\* A tile begins with annotations = None: iterating it at line 219 raises.
BeginTileRaise ==
  /\ pc = "extract_patches"
  /\ ~ep.in_tile
  /\ ep.tile_nb < Cardinality(DOMAIN ep.tile_dict)
  /\ ep.annotations.none
  /\ ep' = [EpTileSetup(ep) EXCEPT !.in_tile = FALSE]
  /\ pc' = "error"
  /\ error' = TypeError
  /\ UNCHANGED <<config, slides, slide_nb, slide, annotation_dict, grt, cfl, meta_data>>

\* Lines 236-248 of the iteration (row, col) of the current tile.
PatchX == Clamp(ep.col * PatchStep(ep.patch_size, ep.overlap), ep.patch_size, ep.tile_size)
PatchY == Clamp(ep.row * PatchStep(ep.patch_size, ep.overlap), ep.patch_size, ep.tile_size)
StopX == StopAt(ep.col * PatchStep(ep.patch_size, ep.overlap), ep.patch_size, ep.tile_size)
StopY == ep.stop_y \/
         StopAt(ep.row * PatchStep(ep.patch_size, ep.overlap), ep.patch_size, ep.tile_size)

PatchLabel ==
  CheckForLabel(ep.label_dict,
                PatchMaskNonzero(ep.annotations, ep.tile_x, ep.tile_y, ep.tile_size,
                                 PatchX, PatchY, ep.patch_size),
                SliceLen(PatchY, PatchY + ep.patch_size, ep.tile_size)
                  * SliceLen(PatchX, PatchX + ep.patch_size, ep.tile_size))

\* The patch slice taken at this iteration: position and shape.
Visit(f) ==
  [f EXCEPT !.visited =
     Append(@, [x |-> PatchX, y |-> PatchY,
                h |-> SliceLen(PatchY, PatchY + f.patch_size, f.tile_size),
                w |-> SliceLen(PatchX, PatchX + f.patch_size, f.tile_size)])]

\* Lines 271-274 and the two range() loops: where the walk goes next.
EpAdvance(f) ==
  LET g == [f EXCEPT !.stop_y = StopY]
  IN IF ~StopX /\ f.col + 1 < f.cols THEN [g EXCEPT !.col = f.col + 1]
     ELSE IF ~StopY /\ f.row + 1 < f.rows THEN [g EXCEPT !.row = f.row + 1, !.col = 0]
     ELSE EpTileDone(g)

\* Lines 252-270: the patch has a label, its record and its image are stored.
EpRecord(f, label) ==
  [f EXCEPT
     !.patch_dict[f.tile_nb].patches =
        DictUpdate(@, f.patch_nb,
                   [x_pos |-> PatchX, y_pos |-> PatchY, patch_size |-> f.patch_size,
                    label |-> label, slide_name |-> f.slide_name]),
     !.files = @ \cup {<<label, f.slide_name, f.tile_nb, f.patch_nb>>},
     !.patch_nb = f.patch_nb + 1]

PatchLabelled ==
  /\ pc = "extract_patches"
  /\ ep.in_tile
  /\ PatchLabel \notin {None, TypeError}
  /\ ep' = EpAdvance(EpRecord(Visit(ep), PatchLabel))
  /\ UNCHANGED <<pc, config, slides, slide_nb, slide, annotation_dict, grt, cfl,
                 meta_data, error>>

PatchDiscarded ==
  /\ pc = "extract_patches"
  /\ ep.in_tile
  /\ PatchLabel = None
  /\ ep' = EpAdvance(Visit(ep))
  /\ UNCHANGED <<pc, config, slides, slide_nb, slide, annotation_dict, grt, cfl,
                 meta_data, error>>

\* check_for_label raises: extract_patches is left with the exception.
PatchRaise ==
  /\ pc = "extract_patches"
  /\ ep.in_tile
  /\ PatchLabel = TypeError
  /\ ep' = Visit(ep)
  /\ pc' = "error"
  /\ error' = TypeError
  /\ UNCHANGED <<config, slides, slide_nb, slide, annotation_dict, grt, cfl, meta_data>>

\* Line 279: every tile is done, patch_dict is returned to the driver.
ReturnPatches ==
  /\ pc = "extract_patches"
  /\ ~ep.in_tile
  /\ ep.tile_nb >= Cardinality(DOMAIN ep.tile_dict)
  /\ pc' = "save_patch_configuration"
  /\ UNCHANGED <<config, slides, slide_nb, slide, annotation_dict, grt, ep, cfl,
                 meta_data, error>>

\* ----------------------------------------------------------- slides2patches
FileNotFoundError == "FileNotFoundError"

KnownFormats == {"geojson", "xml"}

\* int(self.slide.level_downsamples[level]) of the slides of the model.
LevelDownsample(level) == level + 1

\* load_annotation(annotation_path): the polygons of a .geojson or .xml file;
\* for any other extension "Unknown file format" is printed and None returned.
LoadAnnotationResult(format, file) ==
  IF format \in KnownFormats THEN Annotations(file) ELSE NoAnnotations

CurrentSlide == slides[slide_nb + 1]

\* Lines 306-307: a slide without annotation file is skipped when configured.
SkipSlide ==
  /\ pc = "slides2patches"
  /\ slide_nb < Len(slides)
  /\ ~CurrentSlide.annotated /\ config.skip_unlabeled_slides
  /\ slide_nb' = slide_nb + 1
  /\ UNCHANGED <<pc, config, slides, slide, annotation_dict, grt, ep, cfl,
                 meta_data, error>>

Processed ==
  /\ pc = "slides2patches"
  /\ slide_nb < Len(slides)
  /\ ~(~CurrentSlide.annotated /\ config.skip_unlabeled_slides)

\* Lines 313-318: load_slide, apply_tissue_detection, entry of
\* get_relevant_tiles.
EnterTiling ==
  /\ slide' = CurrentSlide
  /\ grt' = GrtEnter(CurrentSlide.mask, config.tile_size)
  /\ pc' = "get_relevant_tiles"

\* Line 312 on a .geojson or .xml file that exists.
LoadAnnotationParsed ==
  /\ Processed
  /\ config.annotation_file_format \in KnownFormats
  /\ CurrentSlide.annotated
  /\ annotation_dict' =
       LoadAnnotationResult(config.annotation_file_format, CurrentSlide.polygons)
  /\ EnterTiling
  /\ UNCHANGED <<config, slides, slide_nb, ep, cfl, meta_data, error>>

\* Line 312 on a .geojson or .xml path without file: open() raises.
LoadAnnotationMissing ==
  /\ Processed
  /\ config.annotation_file_format \in KnownFormats
  /\ ~CurrentSlide.annotated
  /\ pc' = "error"
  /\ error' = FileNotFoundError
  /\ UNCHANGED <<config, slides, slide_nb, slide, annotation_dict, grt, ep, cfl,
                 meta_data>>

\* Line 312 on any other extension: None comes back and the driver goes on.
LoadAnnotationUnknown ==
  /\ Processed
  /\ config.annotation_file_format \notin KnownFormats
  /\ annotation_dict' =
       LoadAnnotationResult(config.annotation_file_format, CurrentSlide.polygons)
  /\ EnterTiling
  /\ UNCHANGED <<config, slides, slide_nb, ep, cfl, meta_data, error>>

\* Line 157 and the call at line 323: the tiles are returned and handed to
\* extract_patches with the annotations load_annotation gave.
ReturnTiles ==
  /\ pc = "get_relevant_tiles"
  /\ ~GrtInLoop
  /\ ep' = EpEnter(grt.relevant_tiles_dict, annotation_dict, config.label_dict,
                   config.overlap, config.patch_size, LevelDownsample(slide.level),
                   slide.name)
  /\ pc' = "extract_patches"
  /\ UNCHANGED <<config, slides, slide_nb, slide, annotation_dict, grt, cfl,
                 meta_data, error>>

\* Line 332: the slide's manifest is written, the loop goes to the next slide.
SavePatchConfiguration ==
  /\ pc = "save_patch_configuration"
  /\ meta_data' = DictUpdate(meta_data, slide.name, ep.patch_dict)
  /\ slide_nb' = slide_nb + 1
  /\ pc' = "slides2patches"
  /\ UNCHANGED <<config, slides, slide, annotation_dict, grt, ep, cfl, error>>

\* ------------------------------------------------------------------ inputs
MaxRules == 2
MaxPatch == 2
MaxTileSize == 3
MaxTiles == 2
MaxSlides == 2

Labels == {"tumor", "stroma", "background"}
RuleTypes == {"==", ">=", "<="}

Rules == [label : Labels, type : RuleTypes, threshold : 0 .. ThreshDen]

Distinct(d) == \A i, j \in DOMAIN d : i # j => d[i].label # d[j].label

\* Rule sets: dicts keyed by label, as sequences in insertion order.
LabelDicts ==
  UNION {{d \in [1 .. n -> Rules] : Distinct(d)} : n \in 0 .. MaxRules}

\* Binary masks of the given shapes: every pixel 0 or 255.
MaskSet(shapes) ==
  UNION {{[shape |-> sh, pix |-> f] : f \in [Pixels(sh) -> {<<0>>, <<255>>}]} :
           sh \in shapes}

\* The mask shapes of the tiler: all up to MaxRows x MaxCols, then 2 x 3 and
\* 3 x 2, and 2 x 5, on which tile size 2 gives two cells and a trailing
\* partial column.
TilerShapes == ((1 .. MaxRows) \X (1 .. MaxCols)) \cup {<<2, 3>>, <<3, 2>>, <<2, 5>>}

\* One rectangular polygon from (lo, lo) to (hi, hi), as its vertex list.
Square(lo, hi) == <<<<lo, lo>>, <<hi, lo>>, <<hi, hi>>, <<lo, hi>>>>

PolygonSets ==
  {EmptyDict, [k \in {0} |-> Square(0, 1)], [k \in {0} |-> Square(1, 2)]}

DefaultConfig ==
  [tile_size |-> 1, tissue_coverage |-> 0, overlap |-> 0, patch_size |-> 1,
   label_dict |-> <<>>, annotation_file_format |-> "geojson",
   skip_unlabeled_slides |-> TRUE]

DefaultSlide ==
  [name |-> 1, annotated |-> TRUE, polygons |-> EmptyDict, level |-> 0,
   mask |-> [shape |-> <<1, 1>>, pix |-> [p \in {<<0, 0>>} |-> <<0>>]]]

\* --------------------------------------------- get_relevant_tiles, alone
InitTiler ==
  /\ pc = "get_relevant_tiles"
  /\ \E T \in 1 .. MaxTile, m \in 0 .. CovDen :
        config = [DefaultConfig EXCEPT !.tile_size = T, !.tissue_coverage = m]
  /\ \E mask \in MaskSet(TilerShapes) : slide = [DefaultSlide EXCEPT !.mask = mask]
  /\ grt = GrtEnter(slide.mask, config.tile_size)
  /\ slides = <<slide>> /\ slide_nb = 0
  /\ annotation_dict = Annotations(EmptyDict)
  /\ ep = EpIdle /\ cfl = CflIdle
  /\ meta_data = EmptyDict /\ error = None

NextTiler == AcceptTile \/ RejectTile \/ ReturnTiles

SpecTiler == InitTiler /\ [][NextTiler]_vars

\* ------------------------------------------------- check_for_label, alone
InitLabel ==
  /\ pc = "check_for_label"
  /\ \E d \in LabelDicts, P \in 1 .. MaxPatch :
       \E nz \in 0 .. P * P :
          cfl = [label_dict |-> d, nonzero |-> nz, size |-> P * P, ret |-> NoReturn]
  /\ config = DefaultConfig /\ slide = DefaultSlide
  /\ slides = <<slide>> /\ slide_nb = 0
  /\ annotation_dict = Annotations(EmptyDict)
  /\ grt = GrtIdle /\ ep = EpIdle
  /\ meta_data = EmptyDict /\ error = None

NextLabel == ReturnLabel \/ ReturnNone \/ RaiseTypeError

SpecLabel == InitLabel /\ [][NextLabel]_vars

\* ------------------------------------------------- extract_patches, alone
\* Tile dicts as get_relevant_tiles returns them: the first n cells of one
\* grid row, keyed 0..n-1 in scan order.
TileDicts(T) ==
  {[k \in 0 .. n - 1 |-> TileRecord(0, k, T, 0)] : n \in 0 .. MaxTiles}

\* The rule sets of the patch walk: no rule, one rule on "tumor", and the
\* binary configuration.
PatchLabelDicts ==
  {<<>>,
   <<[label |-> "tumor", type |-> ">=", threshold |-> ThreshDen]>>,
   <<[label |-> "tumor", type |-> "==", threshold |-> 0]>>,
   <<[label |-> "tumor", type |-> "<=", threshold |-> ThreshDen]>>,
   <<[label |-> "background", type |-> "==", threshold |-> 0],
     [label |-> "tumor", type |-> ">=", threshold |-> ThreshDen]>>}

Levels == {0, 1}

\* Tile size, level, patch size (at most the tile's full-resolution size)
\* and overlap.
WalkInputs ==
  {<<T, l, P, o>> \in (1 .. MaxTileSize) \X Levels
                      \X (1 .. MaxTileSize * 2) \X (0 .. OvDen - 1) :
      P <= T * LevelDownsample(l)}

EpStart(w, d, a, t) ==
  /\ config = [DefaultConfig EXCEPT !.tile_size = w[1], !.overlap = w[4],
                                    !.patch_size = w[3], !.label_dict = d]
  /\ slide = [DefaultSlide EXCEPT !.level = w[2]]
  /\ annotation_dict = a
  /\ ep = EpEnter(t, a, d, w[4], w[3], LevelDownsample(w[2]), slide.name)

\* The last disjunct is the scenario tile size 100, patch size 60, overlap 0.
InitPatches ==
  /\ pc = "extract_patches"
  /\ \/ \E w \in WalkInputs, d \in PatchLabelDicts,
           a \in {Annotations(f) : f \in PolygonSets} \cup {NoAnnotations} :
          \E t \in TileDicts(w[1]) : EpStart(w, d, a, t)
     \/ \E d \in PatchLabelDicts :
          EpStart(<<100, 0, 60, 0>>, d, Annotations(EmptyDict),
                  [k \in {0} |-> TileRecord(0, 0, 100, 0)])
  /\ slides = <<slide>> /\ slide_nb = 0
  /\ grt = GrtIdle /\ cfl = CflIdle
  /\ meta_data = EmptyDict /\ error = None

NextPatches ==
  BeginTile \/ BeginTileRaise \/ PatchLabelled \/ PatchDiscarded \/ PatchRaise
  \/ ReturnPatches

SpecPatches == InitPatches /\ [][NextPatches]_vars

\* ------------------------------------------------------------- the driver
\* Slides are named by their place in the directory listing.
DriverSlides(i) ==
  [name : {i}, annotated : BOOLEAN, polygons : {EmptyDict, [k \in {0} |-> Square(0, 1)]},
   level : {0}, mask : MaskSet({<<1, 2>>})]

DriverConfigs ==
  {[DefaultConfig EXCEPT !.tissue_coverage = m, !.annotation_file_format = fmt,
                         !.skip_unlabeled_slides = skip, !.label_dict = d] :
     m \in {0, CovDen}, fmt \in {"geojson", "xml", "txt"}, skip \in BOOLEAN,
     d \in {<<>>, <<[label |-> "tumor", type |-> ">=", threshold |-> ThreshDen]>>,
            <<[label |-> "tumor", type |-> "<=", threshold |-> ThreshDen]>>}}

Init ==
  /\ pc = "slides2patches"
  /\ config \in DriverConfigs
  /\ \E n \in 1 .. MaxSlides :
        slides \in {s \in [1 .. n -> UNION {DriverSlides(i) : i \in 1 .. n}] :
                      \A i \in 1 .. n : s[i].name = i}
  /\ slide_nb = 0
  /\ slide = DefaultSlide
  /\ annotation_dict = Annotations(EmptyDict)
  /\ grt = GrtIdle /\ ep = EpIdle /\ cfl = CflIdle
  /\ meta_data = EmptyDict /\ error = None

Next ==
  \/ SkipSlide \/ LoadAnnotationParsed \/ LoadAnnotationMissing \/ LoadAnnotationUnknown
  \/ AcceptTile \/ RejectTile \/ ReturnTiles
  \/ BeginTile \/ BeginTileRaise \/ PatchLabelled \/ PatchDiscarded \/ PatchRaise
  \/ ReturnPatches \/ SavePatchConfiguration

Spec == Init /\ [][Next]_vars

\* ================================================================ claims
\* Coverage of the cell at (x, y) measured on the mask as it was passed in.
InputCovered(x, y) ==
  CoverageOK(CountNonzero(slide.mask,
                          SliceRegion(slide.mask, y, y + config.tile_size,
                                      x, x + config.tile_size)),
             config.tile_size * config.tile_size, config.tissue_coverage)

TilesReturned == pc = "extract_patches" /\ grt.rows > 0

\* C1: every tile descriptor get_relevant_tiles holds has, on the T x T cell
\* of the mask as passed in, a coverage ratio >= min_coverage.
C1_Soundness ==
  \A k \in DOMAIN grt.relevant_tiles_dict :
     InputCovered(grt.relevant_tiles_dict[k].x, grt.relevant_tiles_dict[k].y)

\* C2: once get_relevant_tiles has returned, every full grid cell whose
\* coverage in the input mask is >= min_coverage is among the tiles returned.
C2_Completeness ==
  TilesReturned =>
     \A row \in 0 .. grt.rows - 1, col \in 0 .. grt.cols - 1 :
        InputCovered(col * config.tile_size, row * config.tile_size) =>
           \E k \in DOMAIN grt.relevant_tiles_dict :
              /\ grt.relevant_tiles_dict[k].x = col * config.tile_size
              /\ grt.relevant_tiles_dict[k].y = row * config.tile_size

\* C7: every tile descriptor has x and y non-negative multiples of T with
\* x + T <= cols and y + T <= rows of the mask, no two descriptors share
\* (x, y), and the keys are 0..n-1 in row-major scan order.
C7_Geometry ==
  LET d == grt.relevant_tiles_dict
      T == config.tile_size
  IN /\ \A k \in DOMAIN d :
          /\ d[k].x >= 0 /\ d[k].y >= 0
          /\ d[k].x % T = 0 /\ d[k].y % T = 0
          /\ d[k].x + T <= slide.mask.shape[2]
          /\ d[k].y + T <= slide.mask.shape[1]
          /\ d[k].size = T
     /\ DOMAIN d = 0 .. Cardinality(DOMAIN d) - 1
     /\ \A j, k \in DOMAIN d :
          j < k => \/ d[j].y < d[k].y
                   \/ d[j].y = d[k].y /\ d[j].x < d[k].x

\* Two tiles returned from a mask with a trailing partial column.
C7_Witness ==
  /\ pc = "extract_patches"
  /\ Cardinality(DOMAIN grt.relevant_tiles_dict) = 2
  /\ slide.mask.shape[2] % config.tile_size # 0

\* ---------------------------------------------------------------- patches
TileWalked ==
  /\ pc \in {"extract_patches", "save_patch_configuration"}
  /\ ~ep.in_tile /\ ep.tile_nb > 0

\* C3: every patch record has 0 <= x_pos, 0 <= y_pos, x_pos + P <= S and
\* y_pos + P <= S for its tile's size S, and every patch slice taken is
\* exactly P x P.
C3_Containment ==
  /\ \A t \in DOMAIN ep.patch_dict :
       \A k \in DOMAIN ep.patch_dict[t].patches :
          LET r == ep.patch_dict[t].patches[k]
          IN /\ 0 <= r.x_pos /\ 0 <= r.y_pos
             /\ r.x_pos + r.patch_size <= ep.patch_dict[t].size
             /\ r.y_pos + r.patch_size <= ep.patch_dict[t].size
             /\ r.patch_size = ep.patch_size
  /\ \A i \in DOMAIN ep.visited :
       ep.visited[i].h = ep.patch_size /\ ep.visited[i].w = ep.patch_size

\* A record at a clamped position that is no multiple of the step.
C3_Witness ==
  \E t \in DOMAIN ep.patch_dict :
     \E k \in DOMAIN ep.patch_dict[t].patches :
        LET r == ep.patch_dict[t].patches[k]
        IN /\ r.x_pos = ep.patch_dict[t].size - ep.patch_size
           /\ r.x_pos % (ep.patch_size - (ep.patch_size * ep.overlap) \div OvDen) # 0
           /\ ep.overlap > 0

\* C4: when the walk of a tile is over, on each axis the positions equal to
\* S - P are exactly the last ones (the end of every row, and the last row),
\* and for S = 100, P = 60, overlap 0 the walk is 0, 40 on each axis.
C4_BoundaryClamp ==
  TileWalked =>
    LET v == ep.visited
        n == Len(ep.visited)
        last == ep.tile_size - ep.patch_size
    IN /\ n > 0
       /\ v[n].x = last /\ v[n].y = last
       /\ \A i \in 1 .. n :
            /\ v[i].x = last <=> (i = n \/ v[i + 1].y # v[i].y)
            /\ v[i].y = last <=> v[i].y = v[n].y
       /\ (ep.tile_size = 100 /\ ep.patch_size = 60 /\ ep.overlap = 0) =>
            [i \in 1 .. n |-> <<v[i].x, v[i].y>>]
               = <<<<0, 0>>, <<40, 0>>, <<0, 40>>, <<40, 40>>>>

\* The scenario's tile has been walked.
C4_Witness ==
  TileWalked /\ ep.tile_size = 100 /\ ep.patch_size = 60 /\ Len(ep.visited) = 4

\* C9: when the walk of a tile is over, every pixel of the tile lies inside
\* at least one visited patch window.
C9_Covered ==
  TileWalked =>
    \A i \in 0 .. ep.tile_size - 1, j \in 0 .. ep.tile_size - 1 :
       \E n \in DOMAIN ep.visited :
          /\ ep.visited[n].x <= i /\ i < ep.visited[n].x + ep.visited[n].w
          /\ ep.visited[n].y <= j /\ j < ep.visited[n].y + ep.visited[n].h

\* A walk with overlap whose last row and column are clamped off the grid.
C9_Witness ==
  /\ TileWalked
  /\ ep.overlap > 0
  /\ Len(ep.visited) >= 9
  /\ (ep.tile_size - ep.patch_size)
       % (ep.patch_size - (ep.patch_size * ep.overlap) \div OvDen) # 0

\* C10: within a row the x positions, and from row to row the y positions,
\* are strictly increasing, and when the walk of a tile is over no two patch
\* records of a tile have the same (x_pos, y_pos).
C10_NoDuplicates ==
  /\ \A i \in 1 .. Len(ep.visited) - 1 :
       \/ ep.visited[i + 1].y = ep.visited[i].y /\ ep.visited[i + 1].x > ep.visited[i].x
       \/ ep.visited[i + 1].y > ep.visited[i].y /\ ep.visited[i + 1].x = 0
  /\ TileWalked =>
       \A t \in DOMAIN ep.patch_dict :
          \A j, k \in DOMAIN ep.patch_dict[t].patches :
             j # k =>
               <<ep.patch_dict[t].patches[j].x_pos, ep.patch_dict[t].patches[j].y_pos>>
                 # <<ep.patch_dict[t].patches[k].x_pos, ep.patch_dict[t].patches[k].y_pos>>

\* A walked tile where S - P is an exact multiple of the step, with overlap,
\* and several records.
C10_Witness ==
  /\ TileWalked
  /\ ep.tile_size > ep.patch_size
  /\ ep.overlap > 0
  /\ (ep.tile_size - ep.patch_size)
       % (ep.patch_size - (ep.patch_size * ep.overlap) \div OvDen) = 0
  /\ \E t \in DOMAIN ep.patch_dict : Cardinality(DOMAIN ep.patch_dict[t].patches) >= 4

\* ------------------------------------------------------------------ labels
\* The comparison of a rule of type "==" or ">=" with p = nonzero / size.
Holds(r) ==
  \/ r.type = "==" /\ r.threshold * cfl.size = ThreshDen * cfl.nonzero
  \/ r.type = ">=" /\ r.threshold * cfl.size >= ThreshDen * cfl.nonzero

OnlyEqGe == \A i \in DOMAIN cfl.label_dict : cfl.label_dict[i].type \in {"==", ">="}

\* C5: on a rule set of "==" and ">=" rules check_for_label returns the label
\* of the first rule whose comparison holds, and None when none holds.
C5_FirstMatch ==
  (pc # "check_for_label" /\ OnlyEqGe) =>
     /\ pc = "returned"
     /\ \A i \in DOMAIN cfl.label_dict :
          (Holds(cfl.label_dict[i]) /\ \A j \in 1 .. i - 1 : ~Holds(cfl.label_dict[j]))
             => cfl.ret = cfl.label_dict[i].label
     /\ (\A i \in DOMAIN cfl.label_dict : ~Holds(cfl.label_dict[i])) <=> cfl.ret = None

\* The second of two rules is the first that holds, and p = 0.
C5_Witness ==
  /\ pc = "returned" /\ OnlyEqGe
  /\ Len(cfl.label_dict) = 2
  /\ cfl.nonzero = 0
  /\ cfl.label_dict[2].type = ">="
  /\ cfl.ret = cfl.label_dict[2].label

\* C8: a "<=" rule reached with no earlier rule matched ends the call with
\* TypeError and no value returned; a rule that matches before any "<=" rule decides
\* the result whatever follows it.
C8_LeRaises ==
  pc # "check_for_label" =>
     \A i \in DOMAIN cfl.label_dict :
        (\A j \in 1 .. i - 1 : ~Holds(cfl.label_dict[j])) =>
           /\ cfl.label_dict[i].type = "<=" =>
                pc = "error" /\ error = TypeError /\ cfl.ret = NoReturn
           /\ (Holds(cfl.label_dict[i])
               /\ \A j \in 1 .. i - 1 : cfl.label_dict[j].type # "<=") =>
                pc = "returned" /\ cfl.ret = cfl.label_dict[i].label

\* A "<=" rule reached after a ">=" rule that does not match.
C8_Witness ==
  /\ pc = "error"
  /\ Len(cfl.label_dict) = 2
  /\ cfl.label_dict[1].type = ">=" /\ ~Holds(cfl.label_dict[1])
  /\ cfl.label_dict[2].type = "<="

\* ------------------------------------------------------------------ driver
\* C6: with an annotation format that is neither geojson nor xml the driver
\* ends in an error for the slide: it does not tile it, extract patches or
\* write a manifest.
C6_UnknownFormatFatal ==
  config.annotation_file_format \notin KnownFormats =>
     /\ pc \notin {"get_relevant_tiles", "extract_patches", "save_patch_configuration"}
     /\ meta_data = EmptyDict

====
